---- MODULE Spec2Model ----
(***************************************************************************)
(* Inverse binomial sampling: the estimator calls of ibs.py                *)
(* (ibs_loglikelihood / _ibs_single), the fixed-sample estimator of        *)
(* plot_sampling_efficiency.py (fixed_loglikelihood, with the smoothing    *)
(* functions of fixed_sampling.py), the sample path of                     *)
(* animate_inverse_sampling.py (ibs_sample_path), the analytical moments   *)
(* of fixed_sampling.py (fixed_analytical_mean / _variance) and of ibs.py  *)
(* (ibs_analytical_variance with _dilogarithm) and the special functions   *)
(* of scipy/special.py.                                                    *)
(*                                                                         *)
(* One call is one behaviour: Init draws the entry point and its           *)
(* arguments, the actions are the steps of the call.  The simulator        *)
(* model(theta, s) is a nondeterministic draw from the set of responses it *)
(* gives positive probability (support).                                   *)
(*                                                                         *)
(* Python floats are modelled by the exact reals they approximate: a value *)
(* is a*gamma + b*(pi^2/6) + c with a, b, c rationals (gamma the           *)
(* Euler-Mascheroni constant), so that digamma and polygamma are computed  *)
(* by the loops of the source.                                             *)
(***************************************************************************)
EXTENDS Integers, Sequences, FiniteSets, TLC

\* ------------------------------------------------------------------ bounds
MaxTrials == 2      \* longest stimuli / responses sequence
MaxRepeats == 2     \* largest repeats argument
MaxK == 3           \* largest hitting time counted exactly
MaxM == 2           \* largest fixed sample count M
MaxIter == 4        \* largest max_iter given to _dilogarithm

Resp == {0, 1}      \* the responses a simulator can return

\* ------------------------------------------------------------ evaluation
\* Op applied to the values of its arguments: each argument is evaluated once,
\* as Python evaluates the operands of an expression before applying it
Strict1(Op(_), x0) == CHOOSE v \in {Op(x) : x \in {x0}} : TRUE
Strict2(Op(_, _), x0, y0) == CHOOSE v \in {Op(x, y) : x \in {x0}, y \in {y0}} : TRUE

\* -------------------------------------------------------------- rationals
RECURSIVE GCD(_, _)
GCD(a, b) == IF b = 0 THEN a ELSE Strict2(GCD, b, a % b)

Abs(x) == IF x < 0 THEN -x ELSE x

\* the rational n/d (d # 0) in lowest terms with a positive denominator
Rat(n0, d0) ==
    Strict2(LAMBDA n, d :
                Strict2(LAMBDA g, sg : <<(sg * n) \div g, (sg * d) \div g>>,
                        GCD(Abs(n), Abs(d)), IF d < 0 THEN -1 ELSE 1),
            n0, d0)

RatZero == <<0, 1>>
RatNeg(a0) == Strict1(LAMBDA a : <<-a[1], a[2]>>, a0)
RatAdd(a0, b0) == Strict2(LAMBDA a, b : Rat(a[1] * b[2] + b[1] * a[2], a[2] * b[2]), a0, b0)
RatSub(a, b) == RatAdd(a, RatNeg(b))
RatMul(a0, b0) == Strict2(LAMBDA a, b : Rat(a[1] * b[1], a[2] * b[2]), a0, b0)
RatDiv(a0, b0) == Strict2(LAMBDA a, b : Rat(a[1] * b[2], a[2] * b[1]), a0, b0)
RatDivInt(a0, n0) == Strict2(LAMBDA a, n : Rat(a[1], a[2] * n), a0, n0)
RatMulInt(a0, n0) == Strict2(LAMBDA a, n : Rat(a[1] * n, a[2]), a0, n0)

\* ---------------------------------------------------------- float values
\* euler*gamma + zeta2*(pi^2/6) + rat
Val(e, z, q) == [euler |-> e, zeta2 |-> z, rat |-> q]
Zero == Val(RatZero, RatZero, RatZero)
VRat(q) == Val(RatZero, RatZero, q)
VAdd(a0, b0) ==
    Strict2(LAMBDA a, b : Val(RatAdd(a.euler, b.euler), RatAdd(a.zeta2, b.zeta2),
                              RatAdd(a.rat, b.rat)), a0, b0)
VSub(a0, b0) ==
    Strict2(LAMBDA a, b : Val(RatSub(a.euler, b.euler), RatSub(a.zeta2, b.zeta2),
                              RatSub(a.rat, b.rat)), a0, b0)
VDivInt(a0, n0) ==
    Strict2(LAMBDA a, n : Val(RatDivInt(a.euler, n), RatDivInt(a.zeta2, n),
                              RatDivInt(a.rat, n)), a0, n0)
VMulInt(a0, n0) ==
    Strict2(LAMBDA a, n : Val(RatMulInt(a.euler, n), RatMulInt(a.zeta2, n),
                              RatMulInt(a.rat, n)), a0, n0)

\* scipy/special.py: _EULER_MASCHERONI and math.pi ** 2 / 6.0
EULER_MASCHERONI == Val(<<1, 1>>, RatZero, RatZero)
PI2_OVER_6 == Val(RatZero, <<1, 1>>, RatZero)

\* ------------------------------------------------------------ logarithms
\* The floats built from math.log of positive rationals: polynomials of
\* degree <= 2 in the logarithms of the primes (log(n/d) is the sum of
\* e_p * log(p) over the primes p, e_p the exponent of p in n/d).
\*   lin[p] is the coefficient of log(p), quad[<<p, q>>] of log(p)*log(q).
LogPrimes == {p \in 2..(2 * MaxM + 4) : \A d \in 2..(p - 1) : p % d # 0}

RECURSIVE Expo(_, _)
Expo(n, p) == IF n % p = 0 THEN 1 + Expo(n \div p, p) ELSE 0

LZero == [p \in LogPrimes |-> RatZero]
QZero == [pq \in LogPrimes \X LogPrimes |-> RatZero]
PZero == [lin |-> LZero, quad |-> QZero]

\* math.log(q) for a rational q > 0
math_log(q0) ==
    Strict1(LAMBDA q : [p \in LogPrimes |-> <<Expo(q[1], p) - Expo(q[2], p), 1>>], q0)

LAdd(a0, b0) == Strict2(LAMBDA a, b : [p \in LogPrimes |-> RatAdd(a[p], b[p])], a0, b0)
LSub(a0, b0) == Strict2(LAMBDA a, b : [p \in LogPrimes |-> RatSub(a[p], b[p])], a0, b0)
LScale(c0, a0) == Strict2(LAMBDA c, a : [p \in LogPrimes |-> RatMul(c, a[p])], c0, a0)
\* a ** 2
LSquare(a0) ==
    Strict1(LAMBDA a : [pq \in LogPrimes \X LogPrimes |-> RatMul(a[pq[1]], a[pq[2]])], a0)
QAdd(a0, b0) ==
    Strict2(LAMBDA a, b : [pq \in LogPrimes \X LogPrimes |-> RatAdd(a[pq], b[pq])], a0, b0)
QSub(a0, b0) ==
    Strict2(LAMBDA a, b : [pq \in LogPrimes \X LogPrimes |-> RatSub(a[pq], b[pq])], a0, b0)
QScale(c0, a0) ==
    Strict2(LAMBDA c, a : [pq \in LogPrimes \X LogPrimes |-> RatMul(c, a[pq])], c0, a0)
PAdd(a0, b0) ==
    Strict2(LAMBDA a, b : [lin |-> LAdd(a.lin, b.lin), quad |-> QAdd(a.quad, b.quad)], a0, b0)

\* ------------------------------------------------------ scipy/special.py
\* for k in range(1, n): result += 1.0 / k
RECURSIVE DigammaLoop(_, _, _)
DigammaLoop(result, k, n) ==
    IF k < n
      THEN Strict2(LAMBDA r, j : DigammaLoop(r, j, n), VAdd(result, VRat(Rat(1, k))), k + 1)
      ELSE result

\* mutant: the loop runs over range(1, n + 1)
C7mut_digamma(n) == DigammaLoop(VSub(Zero, EULER_MASCHERONI), 1, n + 1)

\* digamma(n) for a positive integer n (the source raises otherwise)
digamma(n) == DigammaLoop(VSub(Zero, EULER_MASCHERONI), 1, n)

\* for k in range(1, n): result -= 1.0 / (k ** 2)
RECURSIVE PolygammaLoop(_, _, _)
PolygammaLoop(result, k, n) ==
    IF k < n
      THEN Strict2(LAMBDA r, j : PolygammaLoop(r, j, n), VSub(result, VRat(Rat(1, k * k))), k + 1)
      ELSE result

\* polygamma(1, n) for a positive integer n
polygamma1(n) == PolygammaLoop(PI2_OVER_6, 1, n)

\* ------------------------------------------------------------------ state
VARIABLES
    entry,          \* the function called: "ibs", "fixed" or "path"
    stimuli,        \* argument stimuli (opaque stimulus ids)
    responses,      \* argument responses (observed responses)
    iterKind,       \* "list" (re-iterable) or "iterator" (single pass)
    support,        \* the responses model(theta, s) returns with positive probability
    repeats,        \* argument repeats of ibs_loglikelihood
    M,              \* argument M of fixed_loglikelihood
    method,         \* argument method of fixed_loglikelihood
    np,             \* the module numpy of the run: "numpy" (the package) or
                    \* "fake_np" (the fallback run_tests.py installs)
    probabilities,  \* argument probabilities of the analytical functions
    fn,             \* the function called, where the entry has several
    arg_m, arg_n,   \* arguments m and n of digamma(n) / polygamma(m, n)
    tol, max_iter,  \* parameters tol and max_iter of _dilogarithm
    pc,             \* position in the call
    err,            \* the exception raised ("" when none)
    result,         \* the returned tuple (<<>> when nothing was returned)
    posS, posR,     \* elements consumed from the stimuli / responses iterators
    rep,            \* the repeat loop's counter
    log_vals, var_vals, total_samples,   \* locals of ibs_loglikelihood
    log_lik, variance, samples,          \* locals of _ibs_single
    s, r_obs, k,                         \* the trial loop's locals
    flog_lik, obs,                       \* locals of fixed_loglikelihood
    path,                                \* local of ibs_sample_path
    posP,           \* elements consumed from the probabilities iterator
    total,          \* the running total of sum(... for p in probabilities)
    dl_x, term, li_result,   \* parameter x, locals term and result of _dilogarithm
    calls,          \* history: number of simulator calls made
    draws,          \* history: the responses drawn for the current trial
    ks,             \* history: [k, r_obs, draws] of the trials completed in this repeat
    rets,           \* history: the (log_lik, variance, samples) each _ibs_single call returned
    trials_per,     \* history: the number of trials each completed repeat processed
    beyond          \* the current trial's counter k has left the range counted exactly

args == <<entry, stimuli, responses, iterKind, support, repeats, M, method, np,
         probabilities, fn, arg_m, arg_n, tol, max_iter>>
ctl == <<pc, err, result>>
iters == <<posS, posR>>
outer == <<rep, log_vals, var_vals, total_samples>>
single == <<log_lik, variance, samples>>
trial == <<s, r_obs, k>>
fixedv == <<flog_lik, obs>>
pure == <<posP, total, dl_x, term, li_result>>
hist == <<calls, draws, ks, rets, trials_per, beyond>>
vars == <<args, ctl, iters, outer, single, trial, fixedv, path, pure, hist>>

\* ----------------------------------------------------------------- inputs
Seqs(S, n) == UNION {[1..m -> S] : m \in 0..n}

\* stimuli are opaque: the sequence of n distinct stimulus ids
StimuliOf(n) == [j \in 1..n |-> j]

\* the simulator's supports, up to renaming of the responses
Supports == {S \in SUBSET Resp : 1 \in S}

\* the observed responses, up to renaming: a simulator that can return every
\* response treats a trial observed 0 as a trial observed 1 with the two names
\* swapped, so for it the trials observed 1 stand for all
Observed(sup) ==
    {r \in Seqs(Resp, MaxTrials) : sup = Resp => \A j \in 1..Len(r) : r[j] = 1}

Methods == {"naive", "fixed", "laplace", "jeffreys", "clipped", "bogus"}

\* the probabilities given to the analytical functions
Probs == {<<0, 1>>, <<1, 3>>, <<1, 1>>}

\* numpy is the installed package, or the module run_tests.py builds when the
\* package is missing
NumpyModules == {"numpy", "fake_np"}

InitLocals ==
    /\ pc = "start" /\ err = "" /\ result = <<>>
    /\ posS = 0 /\ posR = 0
    /\ rep = 0 /\ log_vals = <<>> /\ var_vals = <<>> /\ total_samples = 0
    /\ log_lik = Zero /\ variance = Zero /\ samples = 0
    /\ s = 0 /\ k = 0
    /\ flog_lik = <<1, 1>> /\ obs = <<>>
    /\ path = <<>>
    /\ entry # "special" => (arg_m = 1 /\ arg_n = <<1, 1>>)
    /\ entry # "dilog" => (tol = <<1, 100>> /\ max_iter = MaxIter)
    /\ posP = 0 /\ total = RatZero
    /\ dl_x = RatZero /\ term = RatZero /\ li_result = RatZero
    /\ calls = 0 /\ draws = <<>> /\ ks = <<>> /\ rets = <<>> /\ trials_per = <<>>
    /\ beyond = FALSE

InitIbs ==
    /\ entry = "ibs"
    /\ stimuli \in {StimuliOf(n) : n \in 0..MaxTrials}
    /\ support \in Supports
    /\ responses \in Observed(support)
    /\ iterKind \in {"list", "iterator"}
    /\ repeats \in -1..MaxRepeats
    /\ M = 0 /\ method = "" /\ r_obs = 0
    /\ np = "numpy"           \* np.mean and np.sum of the two modules agree here
    /\ probabilities = <<>> /\ fn = "ibs_loglikelihood"
    /\ InitLocals

InitFixed ==
    /\ entry = "fixed"
    /\ stimuli \in {StimuliOf(n) : n \in 0..MaxTrials}
    /\ support \in Supports
    /\ responses \in Observed(support)
    /\ iterKind \in {"list", "iterator"}
    /\ repeats = 1
    /\ M \in -1..MaxM /\ method \in Methods /\ r_obs = 0
    /\ np \in NumpyModules
    /\ probabilities = <<>> /\ fn = "fixed_loglikelihood"
    /\ InitLocals

InitPath ==
    /\ entry = "path"
    /\ stimuli = <<>> /\ responses = <<>> /\ iterKind = "list"
    /\ support \in Supports
    /\ repeats = 1 /\ M = 0 /\ method = "" /\ np = "numpy"
    /\ probabilities = <<>> /\ fn = "ibs_sample_path"
    /\ r_obs \in Resp          \* the argument observed
    /\ InitLocals

\* fixed_analytical_mean / fixed_analytical_variance(probabilities, M, method)
InitMoments ==
    /\ entry = "moments"
    /\ fn \in {"fixed_analytical_mean", "fixed_analytical_variance"}
    /\ probabilities \in Seqs(Probs, MaxTrials)
    /\ M \in -1..MaxM /\ method \in Methods
    /\ stimuli = <<>> /\ responses = <<>> /\ iterKind = "list"
    /\ support = {1} /\ repeats = 1 /\ np = "numpy" /\ r_obs = 0
    /\ InitLocals

\* the arguments n given to the special functions: ints and floats, the
\* halves included
SpecialArgs == {<<j, 1>> : j \in -1..MaxK} \cup {<<2 * j + 1, 2>> : j \in -1..MaxK}

\* digamma(n) / polygamma(m, n)
InitSpecial ==
    /\ entry = "special"
    /\ fn \in {"digamma", "polygamma"}
    /\ arg_m \in (IF fn = "digamma" THEN {1} ELSE 0..2)
    /\ arg_n \in SpecialArgs
    /\ probabilities = <<>> /\ M = 0 /\ method = ""
    /\ stimuli = <<>> /\ responses = <<>> /\ iterKind = "list"
    /\ support = {1} /\ repeats = 1 /\ np = "numpy" /\ r_obs = 0
    /\ InitLocals

\* the tolerances given to _dilogarithm
Tols == {<<1, 2>>, <<1, 100>>}

\* ibs_analytical_variance(probabilities). Its _dilogarithm calls run with
\* the defaults tol = 1e-12 and max_iter = 100000; the parameters are drawn
\* here from small sets in which both exits of the loop occur
InitDilog ==
    /\ entry = "dilog"
    /\ fn = "ibs_analytical_variance"
    /\ probabilities \in Seqs(Probs, MaxTrials)
    /\ tol \in Tols /\ max_iter \in 1..MaxIter
    /\ M = 0 /\ method = ""
    /\ stimuli = <<>> /\ responses = <<>> /\ iterKind = "list"
    /\ support = {1} /\ repeats = 1 /\ np = "numpy" /\ r_obs = 0
    /\ InitLocals

Init == InitIbs \/ InitFixed \/ InitPath \/ InitMoments \/ InitSpecial \/ InitDilog

\* ------------------------------------------- scipy/special.py, called
\* int(q): truncation towards zero
py_int(q) == IF q[1] >= 0 THEN q[1] \div q[2] ELSE -((-q[1]) \div q[2])

\* mutant: the check for an integer value is missing
C17mut_NotPositiveInteger(q) == q[1] <= 0

\* n <= 0 or int(n) != n
NotPositiveInteger(q) == q[1] <= 0 \/ <<py_int(q), 1>> # q

\* if m != 1: raise NotImplementedError
OrderUnsupported(mm) == mm # 1

\* digamma(n) or polygamma(m, n): the checks, n = int(n), the loop, return
SpecialCall ==
    /\ entry = "special" /\ pc = "start"
    /\ IF (fn = "polygamma" /\ OrderUnsupported(arg_m)) \/ NotPositiveInteger(arg_n)
         THEN pc' = "raised" /\ err' = "NotImplementedError" /\ result' = result
         ELSE /\ result' = <<IF fn = "digamma" THEN digamma(py_int(arg_n))
                                               ELSE polygamma1(py_int(arg_n))>>
              /\ pc' = "done" /\ err' = err
    /\ UNCHANGED <<args, iters, outer, single, trial, fixedv, path, pure, hist>>

\* -------------------------------------------------------------------- zip
\* zip(stimuli, responses) at a for statement: a list gives a fresh iterator,
\* an iterator gives itself
ZipStartS == IF iterKind = "list" THEN 0 ELSE posS
ZipStartR == IF iterKind = "list" THEN 0 ELSE posR

\* mutant: the zip stops one stimulus early
C20mut_ZipHasNext == posS + 1 < Len(stimuli) /\ posR < Len(responses)

\* next(zip): the stimuli iterator is advanced first, then the responses iterator
ZipHasNext == posS < Len(stimuli) /\ posR < Len(responses)
ZipAdvance ==
    /\ posS' = IF posS < Len(stimuli) THEN posS + 1 ELSE posS
    /\ posR' = IF ZipHasNext THEN posR + 1 ELSE posR

\* model(theta, s): the responses a call can return
model(st) == support

\* ------------------------------------------------------------------ ibs.py
\* abs(term)
RatAbs(a) == <<Abs(a[1]), a[2]>>

\* a > b
RatGreater(a, b) == a[1] * b[2] > b[1] * a[2]

\* while abs(term) > tol and k < max_iter
SeriesContinues(tm, tl, kk, mi) == RatGreater(RatAbs(tm), tl) /\ kk < mi

\* np.sum(... for p in probabilities): the sum starts
DilogStart ==
    /\ entry = "dilog" /\ pc = "start"
    /\ posP' = 0 /\ total' = RatZero
    /\ pc' = "vsum"
    /\ UNCHANGED <<args, err, result, iters, outer, single, trial, fixedv, path,
                   dl_x, term, li_result, hist>>

\* the next p: _dilogarithm(1.0 - p) is entered; result = 0.0; term = x; k = 1
DilogCall ==
    /\ entry = "dilog" /\ pc = "vsum" /\ posP < Len(probabilities)
    /\ posP' = posP + 1
    /\ dl_x' = RatSub(<<1, 1>>, probabilities[posP + 1])
    /\ li_result' = RatZero
    /\ term' = RatSub(<<1, 1>>, probabilities[posP + 1])
    /\ k' = 1
    /\ pc' = "series"
    /\ UNCHANGED <<args, err, result, iters, outer, single, s, r_obs, fixedv, path,
                   total, hist>>

\* result += term / (k * k); k += 1; term *= x
DilogIter ==
    /\ entry = "dilog" /\ pc = "series"
    /\ SeriesContinues(term, tol, k, max_iter)
    /\ li_result' = RatAdd(li_result, RatDivInt(term, k * k))
    /\ k' = k + 1
    /\ term' = RatMul(term, dl_x)
    /\ UNCHANGED <<args, ctl, iters, outer, single, s, r_obs, fixedv, path,
                   posP, total, dl_x, hist>>

\* the loop is over: return result, which the sum adds
DilogExit ==
    /\ entry = "dilog" /\ pc = "series"
    /\ ~SeriesContinues(term, tol, k, max_iter)
    /\ total' = RatAdd(total, li_result)
    /\ ks' = Append(ks, [x |-> dl_x, terms |-> k - 1, term |-> term, value |-> li_result])
    /\ pc' = "vsum"
    /\ UNCHANGED <<args, err, result, iters, outer, single, trial, fixedv, path,
                   posP, dl_x, term, li_result,
                   calls, draws, rets, trials_per, beyond>>

\* return float(np.sum(...))
DilogReturn ==
    /\ entry = "dilog" /\ pc = "vsum" /\ ~(posP < Len(probabilities))
    /\ result' = <<total>>
    /\ pc' = "done"
    /\ UNCHANGED <<args, err, iters, outer, single, trial, fixedv, path, pure, hist>>

DilogNext ==
    \/ DilogStart
    \/ DilogCall
    \/ DilogIter
    \/ DilogExit
    \/ DilogReturn

\* mutant: the check lets repeats = 0 through
C5mut_RepeatsInvalid(r) == r < 0

\* if repeats < 1: raise ValueError
RepeatsInvalid(r) == r < 1

\* mutant: the comparison is inverted
C2mut_LoopBreaks(r, ro, kk) == r # ro

\* mutant: a hidden cap on the number of attempts
C6mut_LoopBreaks(r, ro, kk) == r = ro \/ kk >= MaxK

\* if r == r_obs: break   (kk is the loop's counter k at the test)
LoopBreaks(r, ro, kk) == r = ro

\* mutant: only the draws that did not match are counted
C19mut_AddSamples(sm, kk) == sm + kk - 1

\* mutant: a trial counts as one sample
C1mut_AddSamples(sm, kk) == sm + 1

\* samples += k
AddSamples(sm, kk) == sm + kk

RECURSIVE SumVals(_)
SumVals(sq) == IF sq = <<>> THEN Zero ELSE VAdd(sq[1], SumVals(Tail(sq)))

\* float(np.mean(log_vals))
np_mean(sq) == VDivInt(SumVals(sq), Len(sq))

\* mutant: the variance is divided by repeats
C3mut_AggVariance(sq, r) == VDivInt(SumVals(sq), r)

\* float(np.sum(var_vals)) / (repeats ** 2)
AggVariance(sq, r) == VDivInt(SumVals(sq), r * r)

IbsStart ==
    /\ entry = "ibs" /\ pc = "start"
    /\ IF RepeatsInvalid(repeats)
         THEN pc' = "raised" /\ err' = "ValueError"
         ELSE pc' = "repeat" /\ err' = err
    /\ log_vals' = <<>> /\ var_vals' = <<>> /\ total_samples' = 0 /\ rep' = 0
    /\ UNCHANGED <<args, result, iters, single, trial, fixedv, path, pure, hist>>

\* for _ in range(repeats): enter _ibs_single
IbsBeginRepeat ==
    /\ entry = "ibs" /\ pc = "repeat" /\ rep < repeats
    /\ log_lik' = Zero /\ variance' = Zero /\ samples' = 0
    /\ posS' = ZipStartS /\ posR' = ZipStartR
    /\ ks' = <<>>
    /\ pc' = "zip"
    /\ UNCHANGED <<args, err, result, outer, trial, fixedv, path, pure,
                   calls, draws, rets, trials_per, beyond>>

\* for s, r_obs in zip(stimuli, responses): k = 1
IbsNextTrial ==
    /\ entry = "ibs" /\ pc = "zip" /\ ZipHasNext
    /\ ZipAdvance
    /\ s' = stimuli[posS + 1] /\ r_obs' = responses[posR + 1] /\ k' = 1
    /\ draws' = <<>>
    /\ pc' = "sim"
    /\ UNCHANGED <<args, err, result, outer, single, fixedv, path, pure,
                   calls, ks, rets, trials_per, beyond>>

\* r = model(theta, s); r # r_obs: k += 1
IbsSimMismatch ==
    /\ entry = "ibs" /\ pc = "sim" /\ k < MaxK
    /\ \E r \in model(s) :
         /\ ~LoopBreaks(r, r_obs, k)
         /\ draws' = Append(draws, r)
    /\ k' = k + 1
    /\ calls' = calls + 1
    /\ UNCHANGED <<args, ctl, iters, outer, single, s, r_obs, fixedv, path, pure,
                   ks, rets, trials_per, beyond>>

\* r = model(theta, s); r == r_obs: break, then the trial's contributions
IbsSimMatch ==
    /\ entry = "ibs" /\ pc = "sim"
    /\ \E r \in model(s) :
         /\ LoopBreaks(r, r_obs, k)
         /\ draws' = Append(draws, r)
         /\ ks' = Append(ks, [k |-> k, r_obs |-> r_obs, draws |-> Append(draws, r)])
    /\ calls' = calls + 1
    /\ log_lik' = VAdd(log_lik, VSub(digamma(1), digamma(k)))
    /\ variance' = VAdd(variance, VSub(polygamma1(1), polygamma1(k)))
    /\ samples' = AddSamples(samples, k)
    /\ beyond' = FALSE
    /\ pc' = "zip"
    /\ UNCHANGED <<args, err, result, iters, outer, trial, fixedv, path, pure,
                   rets, trials_per>>

\* the zip is exhausted: return log_lik, variance, samples to the repeat loop
IbsSingleReturn ==
    /\ entry = "ibs" /\ pc = "zip" /\ ~ZipHasNext
    /\ ZipAdvance
    /\ log_vals' = Append(log_vals, log_lik)
    /\ var_vals' = Append(var_vals, variance)
    /\ total_samples' = total_samples + samples
    /\ rep' = rep + 1
    /\ rets' = Append(rets, <<log_lik, variance, samples>>)
    /\ trials_per' = Append(trials_per, Len(ks))
    /\ pc' = "repeat"
    /\ UNCHANGED <<args, err, result, single, trial, fixedv, path, pure,
                   calls, draws, ks, beyond>>

\* the repeat loop is over: aggregate and return
IbsReturn ==
    /\ entry = "ibs" /\ pc = "repeat" /\ ~(rep < repeats)
    /\ IF repeats = 0
         THEN \* / (repeats ** 2) divides by zero
              pc' = "raised" /\ err' = "ZeroDivisionError" /\ result' = result
         ELSE /\ result' = <<np_mean(log_vals), AggVariance(var_vals, repeats), total_samples>>
              /\ pc' = "done" /\ err' = err
    /\ UNCHANGED <<args, iters, outer, single, trial, fixedv, path, pure, hist>>

\* the steps of the call that draw nothing
IbsSteps ==
    \/ IbsStart
    \/ IbsBeginRepeat
    \/ IbsNextTrial
    \/ IbsSingleReturn
    \/ IbsReturn

IbsNext == IbsSteps \/ IbsSimMismatch \/ IbsSimMatch

\* the counter k is a Python int and has no largest value: past MaxK the loop
\* goes on drawing and the history stops counting
IbsSimMismatchBeyond ==
    /\ entry = "ibs" /\ pc = "sim" /\ k = MaxK
    /\ \E r \in model(s) : ~LoopBreaks(r, r_obs, k)
    /\ beyond' = TRUE
    /\ UNCHANGED <<args, ctl, iters, outer, single, trial, fixedv, path, pure,
                   calls, draws, ks, rets, trials_per>>

\* -------------------------------------------------------- fixed_sampling.py
\* mutant: a name the table does not hold falls back to the naive estimator
C14mut_FIXED_SAMPLING_METHODS ==
    [naive |-> <<RatZero, RatZero>>,
     fixed |-> <<(<<1, 1>>), (<<1, 1>>)>>,
     laplace |-> <<(<<1, 1>>), (<<2, 1>>)>>,
     jeffreys |-> <<(<<1, 2>>), (<<1, 1>>)>>,
     bogus |-> <<RatZero, RatZero>>]

\* FIXED_SAMPLING_METHODS: name -> (alpha, beta) of its _log_fixed_smoothing call
FIXED_SAMPLING_METHODS ==
    [naive |-> <<RatZero, RatZero>>,
     fixed |-> <<(<<1, 1>>), (<<1, 1>>)>>,
     laplace |-> <<(<<1, 1>>), (<<2, 1>>)>>,
     jeffreys |-> <<(<<1, 2>>), (<<1, 1>>)>>]

RECURSIVE SumInts(_)
SumInts(sq) == IF sq = <<>> THEN 0 ELSE sq[1] + SumInts(Tail(sq))

\* _log_fixed_smoothing raises ValueError: M = x.size is 0
ObservationsEmpty(x) == Len(x) = 0

\* (m + alpha) / (M + beta), the argument of np.log, for non-empty x
SmoothedRatio(x, alpha, beta) ==
    RatDiv(RatAdd(<<SumInts(x), 1>>, alpha), RatAdd(<<Len(x), 1>>, beta))

\* FIXED_SAMPLING_PARAMS: name -> (alpha, beta)
FIXED_SAMPLING_PARAMS ==
    [fixed |-> <<(<<1, 1>>), (<<1, 1>>)>>,
     laplace |-> <<(<<1, 1>>), (<<2, 1>>)>>,
     jeffreys |-> <<(<<1, 2>>), (<<1, 1>>)>>]

\* math.comb(n, kk)
RECURSIVE comb(_, _)
comb(n, kk) == IF kk = 0 THEN 1 ELSE (comb(n, kk - 1) * (n - kk + 1)) \div kk

\* a ** n for an int n >= 0 (0.0 ** 0 is 1.0)
RECURSIVE RatPow(_, _)
RatPow(a, n) == IF n = 0 THEN <<1, 1>> ELSE RatMul(a, RatPow(a, n - 1))

\* prob = math.comb(M, k) * (p ** k) * ((1.0 - p) ** (M - k))
BinomProb(p, MM, kk) ==
    RatMul(RatMulInt(RatPow(p, kk), comb(MM, kk)), RatPow(RatSub(<<1, 1>>, p), MM - kk))

\* val = math.log((k + alpha) / (M + beta))
LogVal(kk, MM, alpha, beta) ==
    math_log(RatDiv(RatAdd(<<kk, 1>>, alpha), RatAdd(<<MM, 1>>, beta)))

\* mean = sum(pv * lv for pv, lv in zip(probs, log_vals)), over k in range(M + 1)
RECURSIVE MeanSum(_, _, _, _, _)
MeanSum(p, MM, alpha, beta, kk) ==
    IF kk > MM THEN LZero
    ELSE LAdd(LScale(BinomProb(p, MM, kk), LogVal(kk, MM, alpha, beta)),
              MeanSum(p, MM, alpha, beta, kk + 1))

\* var = sum(pv * (lv - mean) ** 2 for pv, lv in zip(probs, log_vals))
RECURSIVE VarSum(_, _, _, _, _, _)
VarSum(p, MM, alpha, beta, mean, kk) ==
    IF kk > MM THEN QZero
    ELSE QAdd(QScale(BinomProb(p, MM, kk),
                     LSquare(LSub(LogVal(kk, MM, alpha, beta), mean))),
              VarSum(p, MM, alpha, beta, mean, kk + 1))

\* _single_fixed_moments(p, M, alpha, beta): (mean, var)
single_fixed_moments(p, MM, alpha, beta) ==
    Strict1(LAMBDA mean : <<[lin |-> mean, quad |-> QZero],
                            [lin |-> LZero, quad |-> VarSum(p, MM, alpha, beta, mean, 0)]>>,
            MeanSum(p, MM, alpha, beta, 0))

\* if method not in FIXED_SAMPLING_PARAMS: raise ValueError; the sum starts
MomentsStart ==
    /\ entry = "moments" /\ pc = "start"
    /\ IF method \notin DOMAIN FIXED_SAMPLING_PARAMS
         THEN pc' = "raised" /\ err' = "ValueError" /\ total' = total
         ELSE pc' = "msum" /\ err' = err /\ total' = PZero
    /\ posP' = 0
    /\ UNCHANGED <<args, result, iters, outer, single, trial, fixedv, path,
                   dl_x, term, li_result, hist>>

\* the next p of probabilities: _single_fixed_moments(p, M, alpha, beta)[0]
\* for the mean, [1] for the variance, added to the sum
MomentsTerm ==
    /\ entry = "moments" /\ pc = "msum" /\ posP < Len(probabilities)
    /\ posP' = posP + 1
    /\ total' = PAdd(total,
          single_fixed_moments(probabilities[posP + 1], M,
                               FIXED_SAMPLING_PARAMS[method][1],
                               FIXED_SAMPLING_PARAMS[method][2])
              [IF fn = "fixed_analytical_mean" THEN 1 ELSE 2])
    /\ UNCHANGED <<args, ctl, iters, outer, single, trial, fixedv, path,
                   dl_x, term, li_result, hist>>

\* return float(sum(...))
MomentsReturn ==
    /\ entry = "moments" /\ pc = "msum" /\ ~(posP < Len(probabilities))
    /\ result' = <<total>>
    /\ pc' = "done"
    /\ UNCHANGED <<args, err, iters, outer, single, trial, fixedv, path, pure, hist>>

MomentsNext ==
    \/ MomentsStart
    \/ MomentsTerm
    \/ MomentsReturn

\* np.log(q) raises: the package returns -inf for q = 0, the fallback's log is
\* math.log, which raises ValueError (math domain error)
LogRaises(q) == np = "fake_np" /\ q[1] = 0

\* ------------------------------------------- plot_sampling_efficiency.py
\* total_samples = M * len(responses)
FixedTotalSamples == M * Len(responses)

\* log_prob_fn = FIXED_SAMPLING_METHODS[method]; log_lik = 0.0; the for statement.
\* flog_lik holds q for the float log(q): a sum of logarithms is the logarithm
\* of the product, and log(0) is -inf
FixedStart ==
    /\ entry = "fixed" /\ pc = "start"
    /\ IF method \notin DOMAIN FIXED_SAMPLING_METHODS
         THEN pc' = "raised" /\ err' = "ValueError"
         ELSE pc' = "fzip" /\ err' = err
    /\ flog_lik' = <<1, 1>>
    /\ posS' = ZipStartS /\ posR' = ZipStartR
    /\ UNCHANGED <<args, result, outer, single, trial, obs, path, pure, hist>>

\* for s, r_obs in zip(stimuli, responses): obs = []
FixedNextTrial ==
    /\ entry = "fixed" /\ pc = "fzip" /\ ZipHasNext
    /\ ZipAdvance
    /\ s' = stimuli[posS + 1] /\ r_obs' = responses[posR + 1]
    /\ obs' = <<>>
    /\ draws' = <<>>
    /\ pc' = "fsim"
    /\ UNCHANGED <<args, err, result, outer, single, k, flog_lik, path, pure,
                   calls, ks, rets, trials_per, beyond>>

\* for _ in range(M): obs.append(1.0 if model(theta, s) == r_obs else 0.0)
FixedDraw ==
    /\ entry = "fixed" /\ pc = "fsim" /\ Len(obs) < M
    /\ \E r \in model(s) :
         /\ obs' = Append(obs, IF r = r_obs THEN 1 ELSE 0)
         /\ draws' = Append(draws, r)
    /\ calls' = calls + 1
    /\ UNCHANGED <<args, ctl, iters, outer, single, trial, flog_lik, path, pure,
                   ks, rets, trials_per, beyond>>

\* log_lik += log_prob_fn(obs)
FixedScore ==
    /\ entry = "fixed" /\ pc = "fsim" /\ ~(Len(obs) < M)
    /\ IF ObservationsEmpty(obs)
           \/ LogRaises(SmoothedRatio(obs, FIXED_SAMPLING_METHODS[method][1],
                                            FIXED_SAMPLING_METHODS[method][2]))
         THEN pc' = "raised" /\ err' = "ValueError" /\ flog_lik' = flog_lik
         ELSE /\ flog_lik' = RatMul(flog_lik,
                     SmoothedRatio(obs, FIXED_SAMPLING_METHODS[method][1],
                                        FIXED_SAMPLING_METHODS[method][2]))
              /\ pc' = "fzip" /\ err' = err
    /\ ks' = Append(ks, [k |-> Len(draws), r_obs |-> r_obs, draws |-> draws])
    /\ UNCHANGED <<args, result, iters, outer, single, trial, obs, path, pure,
                   calls, draws, rets, trials_per, beyond>>

\* the zip is exhausted: total_samples = M * len(responses); return
FixedReturn ==
    /\ entry = "fixed" /\ pc = "fzip" /\ ~ZipHasNext
    /\ ZipAdvance
    /\ IF iterKind = "iterator"
         THEN \* len() of an iterator
              pc' = "raised" /\ err' = "TypeError" /\ result' = result
         ELSE /\ result' = <<[log |-> flog_lik], FixedTotalSamples>>
              /\ pc' = "done" /\ err' = err
    /\ UNCHANGED <<args, outer, single, trial, fixedv, path, pure, hist>>

FixedNext ==
    \/ FixedStart
    \/ FixedNextTrial
    \/ FixedDraw
    \/ FixedScore
    \/ FixedReturn

\* ------------------------------------------- animate_inverse_sampling.py
\* if s == observed: break   (r_obs holds the argument observed)
PathBreaks(sample, observed) == sample = observed

\* s = model(theta, None); path.append(s)
PathDraw ==
    /\ entry = "path" /\ pc \in {"start", "psim"}
    /\ \E r \in model(0) :
         /\ PathBreaks(r, r_obs) \/ Len(path) + 1 < MaxK
         /\ path' = Append(path, r)
         /\ IF PathBreaks(r, r_obs)
              THEN pc' = "done" /\ result' = Append(path, r)
              ELSE pc' = "psim" /\ result' = result
    /\ calls' = calls + 1
    /\ UNCHANGED <<args, err, iters, outer, single, trial, fixedv, pure,
                   draws, ks, rets, trials_per, beyond>>

\* ------------------------------------------------------- specifications
Next == IbsNext \/ FixedNext \/ PathDraw \/ MomentsNext \/ SpecialCall \/ DilogNext

Spec == Init /\ [][Next]_vars

\* ibs_loglikelihood alone, with the counter k unbounded: the interpreter takes
\* every step of the call, and the simulator is fair to the matching response
\* (a response of positive probability is eventually drawn)
NextLive == IbsNext \/ IbsSimMismatchBeyond

LiveSpec ==
    /\ InitIbs
    /\ [][NextLive]_vars
    /\ WF_vars(IbsSteps)
    /\ WF_vars(IbsSimMatch)

\* ================================================================= claims

\* ------------------------------------------------------------------- C1
\* C1: when ibs_loglikelihood has returned (repeats >= 1), the total_samples
\* it returns is the number of simulator calls made during the call.
C1_TotalSamplesCountsCalls ==
    (entry = "ibs" /\ pc = "done") => result[3] = calls

\* two repeats over two trials, with at least one draw that did not match
C1_Witness ==
    /\ entry = "ibs" /\ pc = "done" /\ repeats = 2
    /\ trials_per = <<2, 2>> /\ calls > 4 /\ result[3] = calls

\* ------------------------------------------------------------------- C2
TrialIsHittingTime(t) ==
    /\ t.k >= 1
    /\ Len(t.draws) = t.k
    /\ t.draws[t.k] = t.r_obs
    /\ \A j \in 1..(t.k - 1) : t.draws[j] # t.r_obs

RECURSIVE SumK(_)
SumK(sq) == IF sq = <<>> THEN 0 ELSE sq[1].k + SumK(Tail(sq))

RECURSIVE SumRetSamples(_)
SumRetSamples(sq) == IF sq = <<>> THEN 0 ELSE sq[1][3] + SumRetSamples(Tail(sq))

\* C2: the hitting time k of a trial is the index of its first matching draw:
\* k >= 1, the first k-1 responses drawn for the trial differ from the observed
\* response, the k-th equals it, and the trial draws nothing after the match
\* (in _ibs_single and in ibs_sample_path).
C2_HittingTimeIsFirstMatch ==
    /\ entry = "ibs" =>
         /\ \A j \in 1..Len(ks) : TrialIsHittingTime(ks[j])
         /\ pc = "sim" =>
              /\ k = Len(draws) + 1
              /\ \A j \in 1..Len(draws) : draws[j] # r_obs
         /\ (pc = "zip" /\ ks # <<>>) => draws = ks[Len(ks)].draws
         /\ pc \in {"zip", "sim"} =>
              calls = SumRetSamples(rets) + SumK(ks)
                        + (IF pc = "sim" THEN Len(draws) ELSE 0)
    /\ entry = "path" =>
         /\ calls = Len(path)
         /\ pc = "psim" => \A j \in 1..Len(path) : path[j] # r_obs
         /\ pc = "done" =>
              /\ result = path
              /\ TrialIsHittingTime([k |-> Len(path), r_obs |-> r_obs, draws |-> path])

\* a trial whose third draw was the first to match, the next trial begun
C2_Witness ==
    /\ entry = "ibs" /\ pc = "sim" /\ Len(ks) = 1
    /\ ks[1].k = 3 /\ ks[1].draws = <<0, 0, 1>> /\ ks[1].r_obs = 1

\* ------------------------------------------------------------------- C3
\* C3: with per-repeat results (ll_i, v_i, n_i), ibs_loglikelihood returns
\* log_like = (sum ll_i) / R, variance = (sum v_i) / R^2 and
\* total_samples = sum n_i; with R = 1 the single repeat's result unchanged.
C3_AggregationOverRepeats ==
    (entry = "ibs" /\ pc = "done") =>
        /\ Len(rets) = repeats
        /\ VMulInt(result[1], repeats) = SumVals([j \in 1..Len(rets) |-> rets[j][1]])
        /\ VMulInt(result[2], repeats * repeats) = SumVals([j \in 1..Len(rets) |-> rets[j][2]])
        /\ result[3] = SumRetSamples(rets)
        /\ repeats = 1 => result = rets[1]

\* two repeats that returned different log-likelihoods and non-zero variances
C3_Witness ==
    /\ entry = "ibs" /\ pc = "done" /\ repeats = 2
    /\ rets[1][1] # rets[2][1]
    /\ rets[1][2] # Zero /\ rets[2][2] # Zero

\* ------------------------------------------------------------------- C4
\* C4: each of the R repeats processes every trial of the trial set, for lists
\* and for single-pass iterators alike (stimuli and responses of equal length).
C4_EveryRepeatRunsAllTrials ==
    (entry = "ibs" /\ pc = "done" /\ Len(stimuli) = Len(responses)) =>
        /\ Len(trials_per) = repeats
        /\ \A j \in 1..Len(trials_per) : trials_per[j] = Len(stimuli)

\* ------------------------------------------------------------------- C5
\* C5: ibs_loglikelihood with repeats < 1 raises ValueError, the simulator has
\* not been called and nothing is returned.
C5_RepeatsBelowOneRaises ==
    (entry = "ibs" /\ repeats < 1) =>
        /\ pc \in {"start", "raised"}
        /\ pc = "raised" => err = "ValueError"
        /\ calls = 0
        /\ Len(result) = 0

C5_Witness ==
    /\ entry = "ibs" /\ repeats = 0 /\ pc = "raised" /\ err = "ValueError"
    /\ Len(responses) > 0 /\ Len(stimuli) > 0

\* ------------------------------------------------------------------- C6
\* a trial whose observed response the simulator never returns
HazardTrial == entry = "ibs" /\ pc = "sim" /\ r_obs \notin model(s)

\* every trial the call can reach has an observed response the simulator returns
AllMatchable ==
    \A j \in 1..Len(responses) : j <= Len(stimuli) => responses[j] \in model(stimuli[j])

\* the simulator can return a response that keeps the loop going
CanDrawMismatch == \E r \in model(s) : ~LoopBreaks(r, r_obs, k)

\* C6: the trial loop has no attempt cap. Once a trial is reached whose observed
\* response the simulator never returns, the call stays in that trial's loop for
\* ever (another simulator call is always possible, nothing is returned or
\* raised); when every observed response has positive probability and the
\* simulator is fair to the matching response, a call with repeats >= 1 returns.
C6_NoAttemptCap ==
    /\ [](HazardTrial => (Len(result) = 0 /\ err = "" /\ CanDrawMismatch))
    /\ [][HazardTrial => HazardTrial']_vars
    /\ (pc = "start" /\ ~RepeatsInvalid(repeats) /\ AllMatchable) ~> (pc = "done")

\* the loop has run past every counted draw on a trial that cannot match
C6_Witness == HazardTrial /\ beyond /\ k = MaxK

\* ------------------------------------------------------------------- C7
RECURSIVE Harmonic(_)
Harmonic(n) == IF n <= 0 THEN RatZero ELSE RatAdd(Harmonic(n - 1), Rat(1, n))

RECURSIVE Harmonic2(_)
Harmonic2(n) == IF n <= 0 THEN RatZero ELSE RatAdd(Harmonic2(n - 1), Rat(1, n * n))

RECURSIVE SumHarmonic(_)
SumHarmonic(sq) ==
    IF sq = <<>> THEN RatZero ELSE RatAdd(Harmonic(sq[1].k - 1), SumHarmonic(Tail(sq)))

RECURSIVE SumHarmonic2(_)
SumHarmonic2(sq) ==
    IF sq = <<>> THEN RatZero ELSE RatAdd(Harmonic2(sq[1].k - 1), SumHarmonic2(Tail(sq)))

\* C7: a trial with hitting time k adds -(1/1 + ... + 1/(k-1)) to the repeat's
\* log-likelihood and 1/1^2 + ... + 1/(k-1)^2 to its variance (both 0 for
\* k = 1); the repeat's totals are the sums over its trials.
C7_TrialContributions ==
    (entry = "ibs" /\ pc \in {"zip", "sim"}) =>
        /\ log_lik = VRat(RatNeg(SumHarmonic(ks)))
        /\ variance = VRat(SumHarmonic2(ks))
        /\ (ks # <<>> /\ \A j \in 1..Len(ks) : ks[j].k = 1) =>
               (log_lik = Zero /\ variance = Zero)

\* a repeat whose loop is over, with hitting times 3 and 1
C7_Witness ==
    /\ entry = "ibs" /\ pc = "zip" /\ ~ZipHasNext
    /\ Len(ks) = 2 /\ ks[1].k = 3 /\ ks[2].k = 1
    /\ log_lik = VRat(<<-3, 2>>) /\ variance = VRat(<<5, 4>>)

\* ------------------------------------------------------------------- C9
\* C9: fixed_loglikelihood calls the simulator exactly M times for each trial it
\* scores, and the total_samples it returns is M x number of trials, the
\* number of simulator calls made (stated here for M >= 1).
C9_FixedTotalSamplesIsCalls ==
    (entry = "fixed" /\ pc = "done" /\ M >= 1) =>
        /\ \A j \in 1..Len(ks) : ks[j].k = M
        /\ result[2] = M * Len(ks)
        /\ result[2] = calls

\* ------------------------------------------------------------------ C10
\* C10: every estimator call that returns, the fixed-sample estimator included,
\* returns the triple (log_likelihood, variance, total_samples) (stated here
\* for the calls that scored a trial).
C10_EstimateIsTriple ==
    (entry \in {"ibs", "fixed"} /\ pc = "done" /\ calls >= 1) => Len(result) = 3

\* ------------------------------------------------------------------ C11
\* C11: for m matches out of M >= 1 samples the smoothing estimators return
\* the logarithm of: naive m/M, laplace (m+1)/(M+1), jeffreys (m+0.5)/(M+1)
\* (stated on the first trial a fixed_loglikelihood call scores, whose
\* log-likelihood is then that estimator's value).
C11_SmoothingRatios ==
    (entry = "fixed" /\ pc = "fzip" /\ Len(ks) = 1 /\ M >= 1) =>
        /\ method = "naive" => flog_lik = Rat(SumInts(obs), M)
        /\ method = "laplace" => flog_lik = Rat(SumInts(obs) + 1, M + 1)
        /\ method = "jeffreys" => flog_lik = Rat(2 * SumInts(obs) + 1, 2 * (M + 1))

\* ------------------------------------------------------------------ C12
\* C12: the scheme registry recognizes "clipped": the lookup succeeds, with
\* 0 < m < M the value is naive's log(m/M), and with m = 0 the value is the
\* logarithm of a positive number, hence finite (stated for M >= 1 on a call
\* with at least one trial, and on the first trial it scores).
C12_ClippedRecognized ==
    (entry = "fixed" /\ method = "clipped" /\ M >= 1
        /\ Len(stimuli) >= 1 /\ Len(responses) >= 1) =>
        /\ ~(pc = "raised" /\ calls = 0)
        /\ (pc = "fzip" /\ Len(ks) = 1) =>
             /\ (0 < SumInts(obs) /\ SumInts(obs) < M) => flog_lik = Rat(SumInts(obs), M)
             /\ SumInts(obs) = 0 => flog_lik[1] > 0

\* ------------------------------------------------------------------ C13
\* a scored trial none of whose draws matched the observed response
ZeroMatchTrial ==
    \E j \in 1..Len(ks) :
        /\ Len(ks[j].draws) >= 1
        /\ \A i \in 1..Len(ks[j].draws) : ks[j].draws[i] # ks[j].r_obs

\* C13: with naive and M >= 1 a trial with no matching draw is not an error:
\* the call (on lists) goes on, completes, and returns -infinity, the
\* logarithm of 0.
C13_NaiveZeroMatchesIsMinusInf ==
    (entry = "fixed" /\ method = "naive" /\ M >= 1 /\ iterKind = "list"
        /\ ZeroMatchTrial) =>
        /\ pc # "raised" /\ err = ""
        /\ pc = "done" => result[1] = [log |-> RatZero]

\* ------------------------------------------------------------------ C14
\* the names that are no smoothing scheme
UnknownNames == Methods \ {"naive", "fixed", "laplace", "jeffreys", "clipped"}

\* C14: fixed_loglikelihood, fixed_analytical_mean and
\* fixed_analytical_variance called with a name that is no smoothing scheme
\* raise (ValueError "Unknown method") at the lookup: the simulator has not
\* been called, nothing has been summed and nothing is returned.
C14_UnknownSchemeRaises ==
    (entry \in {"fixed", "moments"} /\ method \in UnknownNames) =>
        /\ pc \in {"start", "raised"}
        /\ pc = "raised" => err = "ValueError"
        /\ calls = 0 /\ total = RatZero /\ flog_lik = <<1, 1>>
        /\ Len(result) = 0

\* the estimator has raised on an unknown name, with trials and draws to make
C14_Witness ==
    /\ entry = "fixed" /\ method \in UnknownNames /\ pc = "raised"
    /\ err = "ValueError" /\ M >= 1
    /\ Len(stimuli) >= 1 /\ Len(responses) >= 1

\* ------------------------------------------------------------------ C15
PseudoCountSchemes == {"fixed", "laplace", "jeffreys"}

\* C15: the estimator's check of M depends on the scheme: with naive every
\* call with M <= 0 fails (ValueError); with a pseudo-count scheme a call fails
\* only when M < 0, so M = 0 is accepted and each trial contributes
\* log(alpha/beta) (stated for calls on lists with at least one trial).
C15_MCheckDependsOnScheme ==
    (entry = "fixed" /\ iterKind = "list"
        /\ Len(stimuli) >= 1 /\ Len(responses) >= 1) =>
        /\ (method = "naive" /\ M <= 0) =>
              (pc # "done" /\ (pc = "raised" => err = "ValueError"))
        /\ (method \in PseudoCountSchemes /\ M < 0) =>
              (pc # "done" /\ (pc = "raised" => err = "ValueError"))
        /\ (method \in PseudoCountSchemes /\ M = 0) =>
              /\ pc # "raised"
              /\ (pc = "fzip" /\ Len(ks) = 1) =>
                    flog_lik = RatDiv(FIXED_SAMPLING_METHODS[method][1],
                                      FIXED_SAMPLING_METHODS[method][2])

\* ------------------------------------------------------------------ C16
\* the weight of k matches out of n draws, by Pascal's rule
RECURSIVE Weight(_, _, _)
Weight(p, n, kk) ==
    IF kk < 0 \/ kk > n THEN RatZero
    ELSE IF n = 0 THEN <<1, 1>>
    ELSE RatAdd(RatMul(p, Weight(p, n - 1, kk - 1)),
                RatMul(RatSub(<<1, 1>>, p), Weight(p, n - 1, kk)))

\* log((k + alpha) / (M + beta)) = log(k + alpha) - log(M + beta)
ValueOf(kk, MM, ab) ==
    LSub(math_log(RatAdd(<<kk, 1>>, ab[1])), math_log(RatAdd(<<MM, 1>>, ab[2])))

\* the first and second moments of the value over k = kk..0
RECURSIVE Moment1(_, _, _, _)
Moment1(p, MM, ab, kk) ==
    IF kk < 0 THEN LZero
    ELSE LAdd(Moment1(p, MM, ab, kk - 1), LScale(Weight(p, MM, kk), ValueOf(kk, MM, ab)))

RECURSIVE Moment2(_, _, _, _)
Moment2(p, MM, ab, kk) ==
    IF kk < 0 THEN QZero
    ELSE QAdd(Moment2(p, MM, ab, kk - 1),
              QScale(Weight(p, MM, kk), LSquare(ValueOf(kk, MM, ab))))

\* the per-trial mean, and the per-trial variance E[v^2] - E[v]^2
TrialMean(p, MM, ab) == [lin |-> Moment1(p, MM, ab, MM), quad |-> QZero]
TrialVariance(p, MM, ab) ==
    [lin |-> LZero,
     quad |-> QSub(Moment2(p, MM, ab, MM), LSquare(Moment1(p, MM, ab, MM)))]

RECURSIVE SumOverTrials(_, _, _, _)
SumOverTrials(Op(_, _, _), ps, MM, ab) ==
    IF ps = <<>> THEN PZero
    ELSE PAdd(Op(ps[1], MM, ab), SumOverTrials(Op, Tail(ps), MM, ab))

\* C16: for each smoothing scheme (naive, fixed, laplace, jeffreys) with its
\* pseudo-counts and M >= 1, fixed_analytical_mean and
\* fixed_analytical_variance return the binomial moments of
\* log((k + alpha)/(M + beta)) over k = 0..M, summed over the probabilities;
\* none of these schemes is rejected (stated for at least one probability).
C16_AnalyticalMoments ==
    (entry = "moments" /\ M >= 1 /\ Len(probabilities) >= 1
        /\ method \in {"naive", "fixed", "laplace", "jeffreys"}) =>
        /\ pc # "raised"
        /\ (pc = "done" /\ fn = "fixed_analytical_mean") =>
              result[1] = SumOverTrials(TrialMean, probabilities, M,
                                        FIXED_SAMPLING_METHODS[method])
        /\ (pc = "done" /\ fn = "fixed_analytical_variance") =>
              result[1] = SumOverTrials(TrialVariance, probabilities, M,
                                        FIXED_SAMPLING_METHODS[method])

\* ------------------------------------------------------------------ C17
\* n is non-positive or has no integer value
OutsideDomain(q) == q[1] <= 0 \/ q[2] # 1

\* C17: digamma(n) and polygamma(1, n) raise (NotImplementedError), and
\* return nothing, whenever n <= 0 or n is not integer-valued; polygamma(m, n)
\* raises whenever m # 1; for every positive integer n both return a value,
\* -gamma + H(n-1) and pi^2/6 - H2(n-1).
C17_SpecialFunctionsDomain ==
    (entry = "special" /\ pc # "start") =>
        IF OutsideDomain(arg_n) \/ (fn = "polygamma" /\ arg_m # 1)
          THEN pc = "raised" /\ err = "NotImplementedError" /\ Len(result) = 0
          ELSE /\ pc = "done" /\ err = "" /\ Len(result) = 1
               /\ fn = "digamma" =>
                    result[1] = Val(<<-1, 1>>, RatZero, Harmonic(arg_n[1] - 1))
               /\ fn = "polygamma" =>
                    result[1] = Val(RatZero, <<1, 1>>, RatNeg(Harmonic2(arg_n[1] - 1)))

\* polygamma(1, 1.5) has raised
C17_Witness ==
    /\ entry = "special" /\ fn = "polygamma" /\ arg_m = 1 /\ arg_n = <<3, 2>>
    /\ pc = "raised" /\ err = "NotImplementedError"

\* ------------------------------------------------------------------ C18
\* the j-th term x^j of the series is above the tolerance
TermAbove(xx, j) == RatGreater(RatAbs(RatPow(xx, j)), tol)

\* C18: the series loop of _dilogarithm terminates for every x (its counter
\* stays within max_iter): it stops as soon as the term magnitude is at most
\* the tolerance; when the tolerance is never reached it stops after exactly
\* max_iter terms have been summed; for x = 0 it sums no term and returns 0
\* (stated for max_iter >= 2).
C18_DilogarithmLoop ==
    (entry = "dilog" /\ max_iter >= 2) =>
        /\ pc = "series" => (k >= 1 /\ k <= max_iter)
        /\ \A j \in 1..Len(ks) :
             /\ \A i \in 1..ks[j].terms : TermAbove(ks[j].x, i)
             /\ ks[j].terms < max_iter => ~TermAbove(ks[j].x, ks[j].terms + 1)
             /\ (\A i \in 1..max_iter : TermAbove(ks[j].x, i)) => ks[j].terms = max_iter
             /\ ks[j].x = RatZero => (ks[j].terms = 0 /\ ks[j].value = RatZero)

\* ------------------------------------------------------------------ C19
\* the float v is a rational number (no gamma, no pi^2/6 left in it)
IsRational(v) == v.euler = RatZero /\ v.zeta2 = RatZero

\* C19: after a completed ibs_loglikelihood call with R >= 1 over n trials
\* given as lists of equal length: log_like <= 0, variance >= 0 and
\* total_samples >= R*n; log_like = 0 and variance = 0 exactly when
\* total_samples = R*n; and with n = 0 the call returns (0, 0, 0) without a
\* simulator call.
C19_EstimateRanges ==
    (entry = "ibs" /\ pc = "done" /\ iterKind = "list"
        /\ Len(stimuli) = Len(responses)) =>
        /\ IsRational(result[1]) /\ result[1].rat[1] <= 0
        /\ IsRational(result[2]) /\ result[2].rat[1] >= 0
        /\ result[3] >= repeats * Len(responses)
        /\ (result[1] = Zero /\ result[2] = Zero)
              <=> (result[3] = repeats * Len(responses))
        /\ Len(responses) = 0 => (result = <<Zero, Zero, 0>> /\ calls = 0)

\* two repeats over two trials, one draw of which did not match
C19_Witness ==
    /\ entry = "ibs" /\ pc = "done" /\ iterKind = "list" /\ repeats = 2
    /\ Len(stimuli) = 2 /\ Len(responses) = 2
    /\ result[3] = 5 /\ result[1] = VRat(<<-1, 2>>) /\ result[2] = VRat(<<1, 4>>)

\* ------------------------------------------------------------------ C20
MinLen == IF Len(stimuli) < Len(responses) THEN Len(stimuli) ELSE Len(responses)

\* C20: when the lists stimuli and responses have different lengths,
\* ibs_loglikelihood (repeats >= 1) raises no error: each repeat processes the
\* first min(len(stimuli), len(responses)) pairs in order and no other, the
\* simulator is called for no surplus entry, and the call returns the
\* estimate of these trials.
C20_UnequalLengthsTruncate ==
    (entry = "ibs" /\ iterKind = "list" /\ repeats >= 1
        /\ Len(stimuli) # Len(responses)) =>
        /\ pc # "raised" /\ err = ""
        /\ \A j \in 1..Len(trials_per) : trials_per[j] = MinLen
        /\ pc \in {"zip", "sim"} =>
             /\ Len(ks) <= MinLen
             /\ \A j \in 1..Len(ks) : ks[j].r_obs = responses[j]
        /\ pc = "sim" =>
             /\ Len(ks) < MinLen
             /\ s = stimuli[Len(ks) + 1] /\ r_obs = responses[Len(ks) + 1]
        /\ pc = "done" =>
             /\ Len(trials_per) = repeats
             /\ Len(result) = 3 /\ result[3] = calls
             /\ calls >= repeats * MinLen

\* two repeats over two stimuli and one response have returned
C20_Witness ==
    /\ entry = "ibs" /\ iterKind = "list" /\ pc = "done" /\ repeats = 2
    /\ Len(stimuli) = 2 /\ Len(responses) = 1
    /\ trials_per = <<1, 1>> /\ calls >= 3

====
